---- MODULE Spec2Model ----
(***************************************************************************)
(* Model of the Eltek Flatpack2 SLCAN controller (src/main.py).            *)
(*                                                                         *)
(* Units.  Python floats that carry volts or amps are held as integers in  *)
(* thousandths (48.0 V = 48000, 41.7 A = 41700).  Wall-clock time is held  *)
(* in ticks of 0.1 s (time.sleep(0.2) = 2 ticks, the 10 s re-login         *)
(* threshold = 100 ticks).  On the grids used here the IEEE products       *)
(* int(x*100) and int(x*10) equal the exact truncations.                   *)
(***************************************************************************)
EXTENDS Integers, Sequences, FiniteSets, TLC

VARIABLES
    pc,             \* position of the running program
    ret,            \* stack of positions the running calls return to
    exc,            \* exception that left the program ("none" if none)
    args,           \* parsed command line of main()
    unit_id, serial, login,
    login_id, control_id, status_id1, status_id2,
    target_voltage, target_current, ovp_voltage,
    bus,            \* "none", "open", "closed"
    shutdowns,      \* number of bus.shutdown() calls
    sent,           \* frames handed to bus.send, in order, with send time
    now,            \* time.time(), in ticks
    start, last_login, duration,   \* locals of monitor
    rs_end,         \* local `end` of read_status
    msg,            \* last value returned by bus.recv
    status,         \* last value returned by read_status
    silent,         \* the transport never returns a frame
    horizon,        \* time after which the run is no longer followed
    call,           \* the last method call that sets a voltage, with its arguments
    calls           \* API calls made by the client so far

vars == <<pc, ret, exc, args, unit_id, serial, login,
          login_id, control_id, status_id1, status_id2,
          target_voltage, target_current, ovp_voltage,
          bus, shutdowns, sent, now, start, last_login, duration,
          rs_end, msg, status, silent, horizon, call, calls>>

identity  == <<unit_id, serial, login, login_id, control_id, status_id1, status_id2>>
setpoints == <<target_voltage, target_current, ovp_voltage>>
monlocals == <<start, last_login, duration>>
rxstate   == <<rs_end, msg, status>>

-----------------------------------------------------------------------------
(* Bounds of the model *)

MaxTime == 230      \* ticks a client run is followed for
MainMaxTime == 30   \* ticks a run of main() is followed for
MaxCalls == 2       \* API calls a client makes after construction

-----------------------------------------------------------------------------
(* Python values *)

None == -2000000000     \* the Python None, where a number is optional
NaN  == -1999999999     \* float('nan')
Inf  == 1000000000      \* float('inf')

\* bool(x) of an optional number: None and 0 are falsy, nan and inf are truthy
Truthy(x) == x # None /\ x # 0

\* a < b on floats: every comparison with nan is False
Lt(a, b) == a # NaN /\ b # NaN /\ a < b

\* min(a, b) and max(a, b) as Python computes them: the first argument is
\* kept unless the second compares smaller (greater)
PyMin(a, b) == IF Lt(b, a) THEN b ELSE a
PyMax(a, b) == IF Lt(a, b) THEN b ELSE a

MIN_VOLTAGE == 43500
MAX_VOLTAGE == 57400
MAX_CURRENT == 41700

LOGIN_ID_BASE == 83904512       \* 0x05004800
CONTROL_ID_BASE == 100614144    \* 0x05FF4000
STATUS_ID_BASE == 83968000      \* 0x05014000


-----------------------------------------------------------------------------
(* Strings: a Python str is a sequence of one-character strings *)

Digits == <<"0", "1", "2", "3", "4", "5", "6", "7", "8", "9">>

IsDigit(c) == \E i \in 1..10 : Digits[i] = c

DigitVal(c) == (CHOOSE i \in 1..10 : Digits[i] = c) - 1

RECURSIVE Zeros(_)
Zeros(n) == IF n <= 0 THEN <<>> ELSE <<"0">> \o Zeros(n - 1)

\* no padding
zfill_none(s, width) == s

\* str.zfill(width): pad with zeros on the left, after a leading sign
zfill(s, width) ==
    IF Len(s) >= width THEN s
    ELSE IF s # <<>> /\ Head(s) \in {"+", "-"}
         THEN <<Head(s)>> \o Zeros(width - Len(s)) \o Tail(s)
         ELSE Zeros(width - Len(s)) \o s

RECURSIVE LStrip(_)
LStrip(s) == IF s # <<>> /\ Head(s) = " " THEN LStrip(Tail(s)) ELSE s

RECURSIVE RStrip(_)
RStrip(s) ==
    IF s # <<>> /\ s[Len(s)] = " " THEN RStrip(SubSeq(s, 1, Len(s) - 1)) ELSE s

RECURSIVE DecValue(_)
DecValue(s) ==
    IF s = <<>> THEN 0
    ELSE DecValue(SubSeq(s, 1, Len(s) - 1)) * 10 + DigitVal(s[Len(s)])

\* int(s) of a str: surrounding blanks are dropped, one sign is allowed, the
\* rest must be decimal digits; None stands for ValueError
PyInt(s) ==
    LET t == RStrip(LStrip(s))
        signed == t # <<>> /\ Head(t) \in {"+", "-"}
        body == IF signed THEN Tail(t) ELSE t
    IN  IF body = <<>> \/ \E i \in 1..Len(body) : ~IsDigit(body[i]) THEN None
        ELSE IF signed /\ Head(t) = "-" THEN 0 - DecValue(body)
        ELSE DecValue(body)

-----------------------------------------------------------------------------
(* Integers and bytes *)

\* int(x) of the quotient x / d: truncation toward zero
Trunc(x, d) == IF x >= 0 THEN x \div d ELSE 0 - ((0 - x) \div d)

\* n & 0xFF and (n >> 8) & 0xFF on Python's unbounded two's complement ints
LoByte(n) == n % 256
HiByte(n) == (n \div 256) % 256

RECURSIVE BitOr(_, _)
BitOr(a, b) ==
    IF a = 0 THEN b
    ELSE IF b = 0 THEN a
    ELSE (IF a % 2 = 1 \/ b % 2 = 1 THEN 1 ELSE 0) + 2 * BitOr(a \div 2, b \div 2)

BitSet(n, k) == (n \div k) % 2 = 1

-----------------------------------------------------------------------------
(* Credential and arbitration IDs *)

\* serial_number=None: no serial number is passed
NoSerial == <<"None">>

DefaultLogin == <<19, 67, 114, 16, 80, 105, 0, 0>>   \* 0x13 0x43 0x72 0x10 0x50 0x69 0 0

serial_str(s) == zfill(s, 12)

\* int(serial_str[i:i+2]) for i in range(0, 12, 2)
serial_bytes(s) ==
    [i \in 1..6 |-> PyInt(SubSeq(serial_str(s), 2 * i - 1, 2 * i))]

\* set_serial_number raises ValueError: by its own length test, by int() on a
\* pair that is no number, or by bytes() on a value outside 0..255
SerialRejected(s) ==
    \/ Len(serial_str(s)) # 12
    \/ \E i \in 1..6 : serial_bytes(s)[i] = None
    \/ \E i \in 1..6 : serial_bytes(s)[i] < 0 \/ serial_bytes(s)[i] > 255

set_serial_number(s) == serial_bytes(s) \o <<0, 0>>

\* the unit address is scaled by 8
ControlId_Stride(unit) == CONTROL_ID_BASE + unit * 8

\* the login frame is addressed with the base of the control frames
LoginId_Control(unit) == CONTROL_ID_BASE + unit * 4

LoginId(unit) == LOGIN_ID_BASE + unit * 4
ControlId(unit) == CONTROL_ID_BASE + unit * 4
StatusId1(unit) == STATUS_ID_BASE + unit * 4
StatusId2(unit) == STATUS_ID_BASE + unit * 4 + 4

\* 0x05000000 | (unit_id << 16) | 0x9C00
DefaultId(unit) == BitOr(BitOr(83886080, unit * 65536), 39936)

-----------------------------------------------------------------------------
(* Frame codec *)

Frame(id, data) ==
    [arbitration_id |-> id, data |-> data, is_extended_id |-> TRUE, t |-> now]

\* voltage is scaled like current
ControlData_Tenths(current, voltage, ovp) ==
    LET scaled_current == Trunc(current, 100)
        scaled_voltage == Trunc(voltage, 100)
        scaled_ovp == Trunc(ovp, 10)
    IN  <<LoByte(scaled_current), HiByte(scaled_current),
          LoByte(scaled_voltage), HiByte(scaled_voltage),
          LoByte(scaled_voltage), HiByte(scaled_voltage),
          LoByte(scaled_ovp), HiByte(scaled_ovp)>>

\* lines 77-86: the control payload of stored setpoints (thousandths)
ControlData(current, voltage, ovp) ==
    LET scaled_current == Trunc(current, 100)
        scaled_voltage == Trunc(voltage, 10)
        scaled_ovp == Trunc(ovp, 10)
    IN  <<LoByte(scaled_current), HiByte(scaled_current),
          LoByte(scaled_voltage), HiByte(scaled_voltage),
          LoByte(scaled_voltage), HiByte(scaled_voltage),
          LoByte(scaled_ovp), HiByte(scaled_ovp)>>

\* the lower limit is forgotten
ClampVoltage_NoFloor(volts) == PyMin(volts, MAX_VOLTAGE)

ClampVoltage(volts) == PyMax(MIN_VOLTAGE, PyMin(volts, MAX_VOLTAGE))
ClampCurrent(amps) == PyMax(0, PyMin(amps, MAX_CURRENT))

\* the two value bytes are written high byte first
DefaultVoltageData_BigEndian(volts) ==
    LET centivolts == Trunc(ClampVoltage(volts), 10)
    IN  <<41, 21, 0>> \o <<HiByte(centivolts), LoByte(centivolts)>>

\* lines 94-96: the default-voltage payload
DefaultVoltageData(volts) ==
    LET centivolts == Trunc(ClampVoltage(volts), 10)
    IN  <<41, 21, 0>> \o <<LoByte(centivolts), HiByte(centivolts)>>

\* line 113: voltage * current, both in thousandths, as whole tenths of a watt
\* (the exact product of the thousandths does not fit the integers of TLC)
Power(voltage, current) ==
    LET cv == voltage \div 10
        da == current \div 100
    IN  cv * (da \div 100) + (cv * (da % 100)) \div 100

\* current is read from bytes 0-1 and the error flag from bit 3
DecodeStatus_Shifted(d) ==
    LET flags == BitOr(d[7], d[8] * 256)
    IN  [temperature |-> d[1], current |-> (d[2] * 256 + d[1]) * 100,
         voltage |-> (d[5] * 256 + d[4]) * 10,
         power |-> Power((d[5] * 256 + d[4]) * 10, (d[2] * 256 + d[1]) * 100),
         input_voltage |-> d[6],
         walk_in |-> BitSet(flags, 1),
         float |-> BitSet(flags, 2),
         error |-> BitSet(flags, 8)]

\* lines 109-120: d is 0-based in the source, 1-based here; current and
\* voltage in thousandths
DecodeStatus(d) ==
    LET flags == BitOr(d[7], d[8] * 256)
        current == (d[3] * 256 + d[2]) * 100
        voltage == (d[5] * 256 + d[4]) * 10
    IN  [temperature |-> d[1], current |-> current, voltage |-> voltage,
         power |-> Power(voltage, current),
         input_voltage |-> d[6],
         walk_in |-> BitSet(flags, 1),
         float |-> BitSet(flags, 2),
         error |-> BitSet(flags, 4)]

NoFrame == [arbitration_id |-> 0 - 1, data |-> <<>>]

NoSample == [temperature |-> 0 - 1, current |-> 0, voltage |-> 0, power |-> 0,
             input_voltage |-> 0, walk_in |-> FALSE, float |-> FALSE,
             error |-> FALSE]

-----------------------------------------------------------------------------
(* Control flow *)

\* main() lines 160-175: positions inside the try block, and calls made from it
InTry ==
    \/ pc \in {"main_set", "main_set_sleep", "main_default", "main_read", "main_print"}
    \/ ret # <<>> /\ ret[Len(ret)] \in {"main_print", "main_finally"}

\* lines 127-137: positions inside monitor's try block
InMonitor ==
    \/ pc \in {"m_top", "m_sleep"}
    \/ pc = "rs_wait" /\ Head(ret) = "m_sleep"

\* an exception leaves the running calls: main's finally runs if its try block
\* is active, otherwise the program ends
Raise(e) ==
    /\ exc' = e
    /\ pc' = IF InTry THEN "main_finally" ELSE "exit"
    /\ ret' = <<>>

\* return from read_status or monitor
Return ==
    /\ pc' = Head(ret)
    /\ ret' = Tail(ret)
    /\ exc' = exc

-----------------------------------------------------------------------------
(* EltekFlatpack *)

\* __init__, lines 21-52 up to the sleep: busOk says whether the SLCAN bus
\* opens, sendOk whether bus.send succeeds
EltekFlatpack_init(unit, serial_number, busOk, sendOk, after) ==
    LET given == serial_number # NoSerial /\ serial_number # <<>>
        cred == IF given THEN set_serial_number(serial_number) ELSE DefaultLogin
    IN
    /\ serial' = serial_number
    /\ UNCHANGED <<args, shutdowns, now, monlocals, rxstate, silent, horizon, call,
                   calls>>
    /\ IF unit < 1 \/ unit > 63
       THEN /\ Raise("ValueError")
            /\ UNCHANGED <<unit_id, login, login_id, control_id, status_id1,
                           status_id2, setpoints, bus, sent>>
       ELSE /\ unit_id' = unit
            /\ target_voltage' = 48000
            /\ target_current' = 40000
            /\ ovp_voltage' = 59500
            /\ IF given /\ SerialRejected(serial_number)
               THEN /\ Raise("ValueError")
                    /\ UNCHANGED <<login, login_id, control_id, status_id1,
                                   status_id2, bus, sent>>
               ELSE /\ login' = cred
                    /\ login_id' = LoginId(unit)
                    /\ control_id' = ControlId(unit)
                    /\ status_id1' = StatusId1(unit)
                    /\ status_id2' = StatusId2(unit)
                    /\ IF ~busOk
                       THEN /\ Raise("SystemExit")
                            /\ UNCHANGED <<bus, sent>>
                       ELSE /\ bus' = "open"
                            /\ IF sendOk
                               THEN /\ sent' = Append(sent, Frame(LoginId(unit), cred))
                                    /\ pc' = "init_sleep"
                                    /\ ret' = <<after>>
                                    /\ exc' = exc
                               ELSE /\ Raise("CanError")
                                    /\ sent' = sent

\* __init__, line 52: time.sleep(0.2), then the constructor returns
InitSleep ==
    /\ pc = "init_sleep"
    /\ now + 2 <= horizon
    /\ now' = now + 2
    /\ Return
    /\ UNCHANGED <<args, identity, setpoints, bus, shutdowns, sent, monlocals,
                   rxstate, silent, horizon, call, calls>>

\* lines 67-90
set_voltage_and_current(volts, amps, ovp, sendOk, after) ==
    LET tv == IF volts # None THEN ClampVoltage(volts) ELSE target_voltage
        tc == IF amps # None THEN ClampCurrent(amps) ELSE target_current
        ov == IF ovp # None THEN ovp ELSE ovp_voltage
    IN
    /\ target_voltage' = tv
    /\ target_current' = tc
    /\ ovp_voltage' = ov
    /\ IF ov = NaN THEN Raise("ValueError") /\ sent' = sent
       ELSE IF ov = Inf THEN Raise("OverflowError") /\ sent' = sent
       ELSE IF ~sendOk THEN Raise("CanError") /\ sent' = sent
       ELSE /\ sent' = Append(sent, Frame(control_id, ControlData(tc, tv, ov)))
            /\ pc' = after
            /\ UNCHANGED <<ret, exc>>
    /\ call' = [op |-> "set_voltage_and_current", volts |-> volts, amps |-> amps,
                ovp |-> ovp]
    /\ UNCHANGED <<args, identity, bus, shutdowns, now, monlocals, rxstate, silent,
                   horizon>>

\* the default voltage is also stored as the live target
set_default_voltage_live(volts, sendOk, after) ==
    /\ IF ~sendOk THEN Raise("CanError") /\ sent' = sent
       ELSE /\ sent' = Append(sent, Frame(DefaultId(unit_id), DefaultVoltageData(volts)))
            /\ pc' = after
            /\ UNCHANGED <<ret, exc>>
    /\ call' = [op |-> "set_default_voltage", volts |-> volts, amps |-> None,
                ovp |-> None]
    /\ target_voltage' = ClampVoltage(volts)
    /\ UNCHANGED <<args, identity, target_current, ovp_voltage, bus, shutdowns, now,
                   monlocals, rxstate, silent, horizon>>

\* lines 92-101
set_default_voltage(volts, sendOk, after) ==
    /\ IF ~sendOk THEN Raise("CanError") /\ sent' = sent
       ELSE /\ sent' = Append(sent, Frame(DefaultId(unit_id), DefaultVoltageData(volts)))
            /\ pc' = after
            /\ UNCHANGED <<ret, exc>>
    /\ call' = [op |-> "set_default_voltage", volts |-> volts, amps |-> None,
                ovp |-> None]
    /\ UNCHANGED <<args, identity, setpoints, bus, shutdowns, now, monlocals,
                   rxstate, silent, horizon>>

\* line 104: read_status is entered
read_status(timeout, after) ==
    /\ rs_end' = now + timeout
    /\ pc' = "rs_wait"
    /\ ret' = <<after>> \o ret
    /\ UNCHANGED <<exc, msg, status>>

\* line 106: bus.recv(timeout=0.1) returns None after 0.1 s
RecvTimeout ==
    /\ pc = "rs_wait"
    /\ now < rs_end
    /\ now + 1 <= horizon
    /\ now' = now + 1
    /\ msg' = NoFrame
    /\ UNCHANGED <<pc, ret, exc, args, identity, setpoints, bus, shutdowns, sent,
                   monlocals, rs_end, status, silent, horizon, call, calls>>

\* the arbitration ID of the received frame is not looked at
RecvFrame_NoFilter(id, data, dt) ==
    /\ pc = "rs_wait"
    /\ now < rs_end
    /\ ~silent
    /\ now + dt <= horizon
    /\ now' = now + dt
    /\ msg' = [arbitration_id |-> id, data |-> data]
    /\ IF Len(data) < 8
       THEN Raise("IndexError") /\ status' = status
       ELSE status' = DecodeStatus(data) /\ Return
    /\ UNCHANGED <<args, identity, setpoints, bus, shutdowns, sent, monlocals,
                   rs_end, silent, horizon, call, calls>>

\* lines 106-120: bus.recv returns frame f after dt ticks
RecvFrame(id, data, dt) ==
    /\ pc = "rs_wait"
    /\ now < rs_end
    /\ ~silent
    /\ now + dt <= horizon
    /\ now' = now + dt
    /\ msg' = [arbitration_id |-> id, data |-> data]
    /\ IF id \in {status_id1, status_id2}
       THEN IF Len(data) < 8
            THEN Raise("IndexError") /\ status' = status
            ELSE status' = DecodeStatus(data) /\ Return
       ELSE UNCHANGED <<pc, ret, exc, status>>
    /\ UNCHANGED <<args, identity, setpoints, bus, shutdowns, sent, monlocals,
                   rs_end, silent, horizon, call, calls>>

\* line 106: bus.recv raises
RecvError ==
    /\ pc = "rs_wait"
    /\ now < rs_end
    /\ Raise("CanError")
    /\ UNCHANGED <<args, identity, setpoints, bus, shutdowns, sent, now, monlocals,
                   rxstate, silent, horizon, call, calls>>

\* lines 105, 121: the wait is over, read_status returns None
ReadStatusNone ==
    /\ pc = "rs_wait"
    /\ now >= rs_end
    /\ status' = NoSample
    /\ Return
    /\ UNCHANGED <<args, identity, setpoints, bus, shutdowns, sent, now, monlocals,
                   rs_end, msg, silent, horizon, call, calls>>

\* lines 123-127: monitor is entered
monitor(d, after) ==
    /\ start' = now
    /\ last_login' = now
    /\ duration' = d
    /\ pc' = "m_top"
    /\ ret' = <<after>> \o ret
    /\ exc' = exc

\* the threshold is 15 s
login_due_late == now - last_login > 150

\* re-login is due (line 129)
login_due == now - last_login > 100

\* lines 128-132: re-login when due, then read_status(timeout=0.5) is called
MonitorPoll ==
    /\ pc = "m_top"
    /\ \E sendOk \in BOOLEAN :
        IF login_due /\ ~sendOk
        THEN /\ Raise("CanError")
             /\ UNCHANGED <<sent, last_login, rxstate>>
        ELSE /\ IF login_due
                THEN /\ sent' = Append(sent, Frame(login_id, login))
                     /\ last_login' = now
                ELSE UNCHANGED <<sent, last_login>>
             /\ read_status(5, "m_sleep")
    /\ UNCHANGED <<args, identity, setpoints, bus, shutdowns, now, start, duration,
                   silent, horizon, call, calls>>

\* lines 133-136: the sample is printed, time.sleep(0.2), the duration test
MonitorSleep ==
    /\ pc = "m_sleep"
    /\ now + 2 <= horizon
    /\ now' = now + 2
    /\ IF Truthy(duration) /\ now' - start > duration
       THEN Return
       ELSE pc' = "m_top" /\ UNCHANGED <<ret, exc>>
    /\ UNCHANGED <<args, identity, setpoints, bus, shutdowns, sent, monlocals,
                   rxstate, silent, horizon, call, calls>>

\* monitor has no handler: the KeyboardInterrupt leaves it like anywhere else
Interrupt_Propagates ==
    /\ pc \in {"init_sleep", "main_set_sleep", "rs_wait", "m_top", "m_sleep"}
    /\ Raise("KeyboardInterrupt")
    /\ UNCHANGED <<args, identity, setpoints, bus, shutdowns, sent, now, monlocals,
                   rxstate, silent, horizon, call, calls>>

\* lines 137-138 and everywhere else: KeyboardInterrupt arrives while the
\* program sleeps or waits; monitor catches it and returns, elsewhere it
\* propagates
Interrupt ==
    /\ pc \in {"init_sleep", "main_set_sleep", "rs_wait", "m_top", "m_sleep"}
    /\ IF InMonitor
       THEN /\ pc' = ret[Len(ret)]
            /\ ret' = <<>>
            /\ exc' = exc
       ELSE Raise("KeyboardInterrupt")
    /\ UNCHANGED <<args, identity, setpoints, bus, shutdowns, sent, now, monlocals,
                   rxstate, silent, horizon, call, calls>>

\* lines 140-142
close(after) ==
    /\ bus' = "closed"
    /\ shutdowns' = shutdowns + 1
    /\ pc' = after
    /\ UNCHANGED <<ret, exc, args, identity, setpoints, sent, now, monlocals,
                   rxstate, silent, horizon, call>>

-----------------------------------------------------------------------------
(* Inputs *)

Serial12    == <<"1", "3", "4", "3", "7", "2", "1", "0", "5", "0", "6", "9">>
SerialShort == <<"1", "2", "3">>
SerialLong  == <<"1", "2", "3", "4", "5", "6", "7", "8", "9", "0", "1", "2", "3">>
SerialAlpha == <<"1", "2", "3", "4", "5", "6", "7", "8", "9", "0", "1", "a">>
SerialBlank == <<"1", "2", "3", "4", "5", "6", "7", "8", "9", "0", " ", "7">>
SerialMinus == <<"1", "2", "3", "4", "5", "6", "7", "8", "9", "0", "-", "7">>

Serials == {SerialShort, SerialLong, SerialAlpha, SerialBlank, SerialMinus, Serial12}

Volts == {None, 0, 48505, 100000, NaN}
Amps  == {None, 0 - 5000, 20050, 999000}
Ovps  == {None, 59500, 700000}
DefaultVolts == {0, 48500, 100000, NaN}

StatusExample == <<25, 0, 100, 136, 19, 230, 7, 0>>    \* 0x88 0x13 = 5000
StatusOther   == <<31, 44, 1, 192, 18, 229, 0, 0>>     \* 30.0 A, 48.00 V
StatusShort   == <<25, 0, 100, 136, 19, 230>>

Payloads == {StatusExample, StatusOther, StatusShort}

\* arbitration IDs seen on the bus: both status IDs of this unit and the next
\* unit's second status ID
RxIds == {status_id1, status_id2, status_id2 + 4}

NoCall == [op |-> "none", volts |-> None, amps |-> None, ovp |-> None]

NoArgs == [unit_id |-> 0, serial |-> NoSerial, voltage |-> None, current |-> None,
           ovp |-> None, default_voltage |-> None, monitor |-> FALSE]

-----------------------------------------------------------------------------
(* A client of the class: construction, then calls of the methods *)

Init ==
    /\ pc = "start"
    /\ ret = <<>>
    /\ exc = "none"
    /\ args = NoArgs
    /\ unit_id = 0
    /\ serial = NoSerial
    /\ login = <<>>
    /\ login_id = 0
    /\ control_id = 0
    /\ status_id1 = 0
    /\ status_id2 = 0
    /\ target_voltage = 0
    /\ target_current = 0
    /\ ovp_voltage = 0
    /\ bus = "none"
    /\ shutdowns = 0
    /\ sent = <<>>
    /\ now = 0
    /\ start = 0
    /\ last_login = 0
    /\ duration = None
    /\ rs_end = 0
    /\ msg = NoFrame
    /\ status = NoSample
    /\ silent \in BOOLEAN
    /\ horizon = MaxTime
    /\ call = NoCall
    /\ calls = 0

Construct ==
    /\ pc = "start"
    /\ \E unit \in {63}, busOk \in BOOLEAN, sendOk \in BOOLEAN :
        EltekFlatpack_init(unit, NoSerial, busOk, sendOk, "idle")

CallSetLive ==
    /\ pc = "idle"
    /\ calls < MaxCalls
    /\ calls' = calls + 1
    /\ \E volts \in Volts, amps \in Amps, ovp \in Ovps, sendOk \in BOOLEAN :
        set_voltage_and_current(volts, amps, ovp, sendOk, "idle")

CallSetDefault ==
    /\ pc = "idle"
    /\ calls < MaxCalls
    /\ calls' = calls + 1
    /\ \E volts \in DefaultVolts, sendOk \in BOOLEAN :
        set_default_voltage(volts, sendOk, "idle")

CallReadStatus ==
    /\ pc = "idle"
    /\ calls < MaxCalls
    /\ calls' = calls + 1
    /\ read_status(10, "idle")
    /\ UNCHANGED <<args, identity, setpoints, bus, shutdowns, sent, now, monlocals,
                   silent, horizon, call>>

CallClose ==
    /\ pc \in {"idle", "mon_done"}
    /\ close("exit")
    /\ calls' = calls

Recv ==
    \E id \in RxIds, data \in Payloads, dt \in {0, 1} : RecvFrame(id, data, dt)

Next ==
    \/ Construct
    \/ InitSleep
    \/ CallSetLive
    \/ CallSetDefault
    \/ CallReadStatus
    \/ CallClose
    \/ RecvTimeout
    \/ Recv
    \/ RecvError
    \/ ReadStatusNone
    \/ Interrupt

Spec == Init /\ [][Next]_vars

-----------------------------------------------------------------------------
(* Construction with every unit address and serial number *)

InitConstruct ==
    /\ pc = "start"
    /\ \E unit \in 0..64, s \in Serials \cup {NoSerial, <<>>},
          busOk \in BOOLEAN, sendOk \in BOOLEAN :
        EltekFlatpack_init(unit, s, busOk, sendOk, "idle")

InitNext ==
    \/ InitConstruct
    \/ InitSleep
    \/ CallSetDefault
    \/ CallClose
    \/ Interrupt

InitSpec == Init /\ [][InitNext]_vars

-----------------------------------------------------------------------------
(* A client that runs monitor *)

Durations == {None, 0, 10, 35}

MonConstruct ==
    /\ pc = "start"
    /\ \E sendOk \in BOOLEAN : EltekFlatpack_init(1, NoSerial, TRUE, sendOk, "idle")

CallMonitor ==
    /\ pc = "idle"
    /\ calls' = calls + 1
    /\ \E d \in Durations : monitor(d, "mon_done")
    /\ UNCHANGED <<args, identity, setpoints, bus, shutdowns, sent, now, rxstate,
                   silent, horizon, call>>

MonRecv ==
    \E id \in {status_id1, login_id}, data \in {StatusExample, StatusShort} :
        RecvFrame(id, data, 1)

MonNext ==
    \/ MonConstruct
    \/ InitSleep
    \/ CallMonitor
    \/ MonitorPoll
    \/ MonitorSleep
    \/ RecvTimeout
    \/ MonRecv
    \/ RecvError
    \/ ReadStatusNone
    \/ Interrupt
    \/ CallClose

MonSpec == Init /\ [][MonNext]_vars

-----------------------------------------------------------------------------
(* A client that only reads the status; every pass of the loop of          *)
(* read_status takes wall-clock time, and the loop test is made again      *)

ReadNext ==
    \/ Construct
    \/ InitSleep
    \/ CallReadStatus
    \/ RecvTimeout
    \/ Recv
    \/ RecvError
    \/ ReadStatusNone
    \/ Interrupt
    \/ CallClose

ReadSpec ==
    /\ Init /\ [][ReadNext]_vars
    /\ WF_vars(RecvTimeout)
    /\ WF_vars(ReadStatusNone)

-----------------------------------------------------------------------------
(* main(), lines 145-175 *)

MainArgs ==
    [unit_id : {0, 1}, serial : {NoSerial, SerialLong, Serial12},
     voltage : {None, 0, 48505}, current : {None, 20050}, ovp : {None, 59500},
     default_voltage : {None, 48500}, monitor : BOOLEAN]

MainInit ==
    /\ pc = "start"
    /\ ret = <<>>
    /\ exc = "none"
    /\ args \in MainArgs
    /\ unit_id = 0
    /\ serial = NoSerial
    /\ login = <<>>
    /\ login_id = 0
    /\ control_id = 0
    /\ status_id1 = 0
    /\ status_id2 = 0
    /\ target_voltage = 0
    /\ target_current = 0
    /\ ovp_voltage = 0
    /\ bus = "none"
    /\ shutdowns = 0
    /\ sent = <<>>
    /\ now = 0
    /\ start = 0
    /\ last_login = 0
    /\ duration = None
    /\ rs_end = 0
    /\ msg = NoFrame
    /\ status = NoSample
    /\ silent \in BOOLEAN
    /\ horizon = MainMaxTime
    /\ call = NoCall
    /\ calls = 0

\* line 158
MainConstruct ==
    /\ pc = "start"
    /\ \E busOk \in BOOLEAN, sendOk \in BOOLEAN :
        EltekFlatpack_init(args.unit_id, args.serial, busOk, sendOk, "main_set")

\* lines 161-162
MainSetLive ==
    /\ pc = "main_set"
    /\ calls' = calls
    /\ IF Truthy(args.voltage) \/ Truthy(args.current) \/ Truthy(args.ovp)
       THEN \E sendOk \in BOOLEAN :
                set_voltage_and_current(args.voltage, args.current, args.ovp,
                                        sendOk, "main_set_sleep")
       ELSE /\ pc' = "main_default"
            /\ UNCHANGED <<ret, exc, args, identity, setpoints, bus, shutdowns,
                           sent, now, monlocals, rxstate, silent, horizon, call>>

\* line 163
MainSetSleep ==
    /\ pc = "main_set_sleep"
    /\ now + 2 <= horizon
    /\ now' = now + 2
    /\ pc' = "main_default"
    /\ UNCHANGED <<ret, exc, args, identity, setpoints, bus, shutdowns, sent,
                   monlocals, rxstate, silent, horizon, call, calls>>

\* lines 164-165
MainSetDefault ==
    /\ pc = "main_default"
    /\ calls' = calls
    /\ IF Truthy(args.default_voltage)
       THEN \E sendOk \in BOOLEAN :
                set_default_voltage(args.default_voltage, sendOk, "main_read")
       ELSE /\ pc' = "main_read"
            /\ UNCHANGED <<ret, exc, args, identity, setpoints, bus, shutdowns,
                           sent, now, monlocals, rxstate, silent, horizon, call>>

\* lines 166-169
MainMonitorOrRead ==
    /\ pc = "main_read"
    /\ IF args.monitor
       THEN monitor(None, "main_finally") /\ UNCHANGED rxstate
       ELSE read_status(10, "main_print") /\ UNCHANGED monlocals
    /\ UNCHANGED <<args, identity, setpoints, bus, shutdowns, sent, now, silent,
                   horizon, call,
                   calls>>

\* lines 170-173
MainPrint ==
    /\ pc = "main_print"
    /\ pc' = "main_finally"
    /\ UNCHANGED <<ret, exc, args, identity, setpoints, bus, shutdowns, sent, now,
                   monlocals, rxstate, silent, horizon, call, calls>>

\* lines 174-175
MainFinally ==
    /\ pc = "main_finally"
    /\ close("exit")
    /\ calls' = calls

MainNext ==
    \/ MainConstruct
    \/ InitSleep
    \/ MainSetLive
    \/ MainSetSleep
    \/ MainSetDefault
    \/ MainMonitorOrRead
    \/ MainPrint
    \/ MainFinally
    \/ MonitorPoll
    \/ MonitorSleep
    \/ RecvTimeout
    \/ MonRecv
    \/ RecvError
    \/ ReadStatusNone
    \/ Interrupt

MainSpec == MainInit /\ [][MainNext]_vars

-----------------------------------------------------------------------------
(* Properties *)

Last(q) == q[Len(q)]

\* times at which a login frame was sent
LoginTimes ==
    {sent[i].t : i \in {j \in 1..Len(sent) : sent[j].arbitration_id = login_id}}

\* the latest login send, or the start of monitor if that is later
LastLoginOrStart ==
    CHOOSE t \in LoginTimes \cup {start} : \A u \in LoginTimes \cup {start} : u <= t

IsStatusFrame(m) == m.arbitration_id \in {status_id1, status_id2}

\* the last frame sent is the control frame of the last set_voltage_and_current
ControlSent ==
    /\ exc = "none"
    /\ call.op = "set_voltage_and_current"
    /\ sent # <<>>
    /\ Last(sent).arbitration_id = control_id

\* C1: once constructed, and after any calls of set_voltage_and_current, the
\* stored target_voltage lies in [43.5, 57.4] and target_current in [0, 41.7];
\* volts=100 stores 57.4, volts=0 stores 43.5, amps=-5 stores 0, amps=999
\* stores 41.7
C1_Clamped ==
    /\ unit_id # 0 =>
        /\ MIN_VOLTAGE <= target_voltage /\ target_voltage <= MAX_VOLTAGE
        /\ 0 <= target_current /\ target_current <= MAX_CURRENT
    /\ call.op = "set_voltage_and_current" =>
        /\ call.volts = 100000 => target_voltage = 57400
        /\ call.volts = 0 => target_voltage = 43500
        /\ call.amps = 0 - 5000 => target_current = 0
        /\ call.amps = 999000 => target_current = 41700

C1_Witness ==
    /\ calls = 2
    /\ call.op = "set_voltage_and_current"
    /\ call.volts = 100000 /\ target_voltage = 57400
    /\ call.amps = 0 - 5000 /\ target_current = 0

\* C2 as stated: while monitor runs on a silent transport, every 10-second
\* window holds a login send (counting even the login sent at construction)
C2_Original ==
    (InMonitor /\ silent) => \E t \in LoginTimes : t >= now - 100

\* C2 amended: on a silent transport monitor never goes longer than 10.5 s
\* (15 iterations of 0.7 s) without sending a login frame, and the re-logins
\* are sent exactly every 10.5 s from the start of monitor
C2_ReloginPeriod ==
    (InMonitor /\ silent) =>
        /\ now - LastLoginOrStart <= 105
        /\ \A t \in LoginTimes : t > start => (t - start) % 105 = 0

C2_Witness ==
    /\ InMonitor /\ silent
    /\ start + 105 \in LoginTimes
    /\ start + 210 \in LoginTimes

\* C3: with a duration bound d >= 0, monitor exits at the first iteration
\* boundary at which the elapsed time exceeds d; so the loop is never at its
\* top again with more than d elapsed
C3_DurationExit ==
    (pc = "m_top" /\ duration # None /\ now > start) => now - start <= duration

\* C4: once the bus was opened, the program has ended only after exactly one
\* shutdown of the transport
C4_ShutdownOnExit ==
    (pc = "exit" /\ bus # "none") => shutdowns = 1

\* C5: a frame with a status ID and fewer than 8 data bytes is ignored: no
\* error propagates out of read_status
C5_ShortFrameIgnored ==
    (IsStatusFrame(msg) /\ Len(msg.data) < 8) => exc # "IndexError"

\* C6 as stated: decoding a control payload with the status decoder gives
\* back the voltage within 0.01 V and the current within 0.1 A
C6_Original ==
    ControlSent =>
        LET s == DecodeStatus(Last(sent).data)
        IN  /\ s.voltage - target_voltage <= 10 /\ target_voltage - s.voltage <= 10
            /\ s.current - target_current <= 100 /\ target_current - s.current <= 100

\* C6 amended: the control payload holds the current in bytes 0-1 and the
\* voltage in bytes 2-3 and again in bytes 4-5, unsigned 16-bit little-endian;
\* read back at those offsets and scaled by 0.1 A and 0.01 V they are at most
\* the stored setpoints and less than 0.1 A and 0.01 V below them
C6_ControlFields ==
    ControlSent =>
        LET d == Last(sent).data
            current == (d[2] * 256 + d[1]) * 100
            voltage == (d[4] * 256 + d[3]) * 10
        IN  /\ Len(d) = 8
            /\ d[5] = d[3] /\ d[6] = d[4]
            /\ voltage <= target_voltage /\ target_voltage - voltage < 10
            /\ current <= target_current /\ target_current - current < 100

C6_Witness ==
    /\ ControlSent
    /\ target_voltage = 48505 /\ target_current = 20050
    /\ SubSeq(Last(sent).data, 1, 6) = <<200, 0, 242, 18, 242, 18>>

\* C7 as stated: control_id - login_id = 0x05FA3800 for every unit address
C7_Original ==
    login_id # 0 => control_id - login_id = 100284416

\* C7 amended: for every unit address in 1..63, login_id = 0x05004800 + 4*unit,
\* control_id = 0x05FF4000 + 4*unit, and control_id - login_id = 0x00FEF800
C7_IdOffset ==
    login_id # 0 =>
        /\ unit_id \in 1..63
        /\ login_id = 83904512 + unit_id * 4
        /\ control_id = 100614144 + unit_id * 4
        /\ control_id - login_id = 16709632

C7_Witness == unit_id = 63 /\ login_id = 83904764 /\ control_id = 100614396

\* C8 as stated: the payload [25,0,100,0x88,0x13,230,7,0] decodes to
\* temperature 25, current 10.0, voltage 50.0, input_voltage 230, walk_in,
\* float_mode and no error
C8_Original ==
    (IsStatusFrame(msg) /\ msg.data = StatusExample) =>
        /\ status.temperature = 25
        /\ status.current = 10000
        /\ status.voltage = 50000
        /\ status.input_voltage = 230
        /\ status.walk_in /\ status.float /\ ~status.error

\* C8 amended: that payload decodes to temperature 25, current 2560.0,
\* voltage 50.0, input_voltage 230, walk_in, float_mode and error all set
C8_Decode ==
    (IsStatusFrame(msg) /\ msg.data = StatusExample) =>
        /\ status.temperature = 25
        /\ status.current = 2560000
        /\ status.voltage = 50000
        /\ status.input_voltage = 230
        /\ status.walk_in /\ status.float /\ status.error

C8_Witness ==
    /\ pc = "idle"
    /\ IsStatusFrame(msg) /\ msg.data = StatusExample
    /\ status.temperature = 25

Given(s) == s # NoSerial /\ s # <<>>

AllDigits(s) == \A i \in 1..Len(s) : IsDigit(s[i])

C10_DefaultOnly ==
    [][(/\ pc = "idle" /\ pc' # "rs_wait"
        /\ calls' = calls + 1
        /\ call'.op = "set_default_voltage") =>
        /\ setpoints' = setpoints
        /\ identity' = identity
        /\ \/ sent' = sent /\ exc' = "CanError"
           \/ /\ Len(sent') = Len(sent) + 1
              /\ SubSeq(sent', 1, Len(sent)) = sent
              /\ Len(Last(sent').data) = 5
              /\ Last(sent').arbitration_id = DefaultId(unit_id)
              /\ Last(sent').arbitration_id # login_id
              /\ pc' = "idle" /\ exc' = "none"]_vars

C10_Witness ==
    /\ pc = "idle" /\ calls = 2
    /\ call.op = "set_default_voltage"
    /\ target_voltage = 57400 /\ target_current = 0
    /\ Len(sent) = 3 /\ Len(sent[3].data) = 5

\* the last frame sent is the frame of the last set_default_voltage
DefaultSent ==
    /\ exc = "none"
    /\ call.op = "set_default_voltage"
    /\ sent # <<>>

\* C11: for every unit address in 1..63 and every requested voltage, the
\* default-voltage frame has the extended arbitration ID
\* 0x05000000 | (unit << 16) | 0x9C00 and exactly the 5 data bytes
\* [0x29, 0x15, 0x00, lo, hi], lo/hi being the little-endian 16-bit encoding
\* of the request clamped to [43.5, 57.4] in centivolts, a value in
\* 4350..5740; unit 1 with 48.5 V gives ID 0x05019C00 and 4850 = [0xF2, 0x12]
C11_DefaultFrame ==
    DefaultSent =>
        LET f == Last(sent)
            value == f.data[4] + 256 * f.data[5]
            centivolts == IF call.volts = NaN \/ call.volts < 43500 THEN 4350
                          ELSE IF call.volts > 57400 THEN 5740
                          ELSE call.volts \div 10
        IN  /\ unit_id \in 1..63
            /\ f.is_extended_id
            /\ f.arbitration_id = 83886080 + unit_id * 65536 + 39936
            /\ Len(f.data) = 5
            /\ SubSeq(f.data, 1, 3) = <<41, 21, 0>>
            /\ f.data[4] \in 0..255 /\ f.data[5] \in 0..255
            /\ value = centivolts
            /\ value \in 4350..5740
            /\ (unit_id = 1 /\ call.volts = 48500) =>
                /\ f.arbitration_id = 83991552
                /\ f.data = <<41, 21, 0, 242, 18>>

C11_Witness ==
    /\ DefaultSent
    /\ unit_id = 1 /\ call.volts = 48500
    /\ Last(sent).arbitration_id = 83991552
    /\ Last(sent).data = <<41, 21, 0, 242, 18>>

\* C12: a cancellation delivered while monitor runs - at the login send, in
\* the status receive wait or in the sleep between iterations - can always be
\* taken, and monitor then returns to its caller without propagating it and
\* without sending a frame; the only other ways out of monitor are the
\* duration bound and a transport or decoding error, and once monitor has
\* returned no frame is sent any more
C12_CancelReturns ==
    /\ [](InMonitor => ENABLED Interrupt)
    /\ [][InMonitor =>
            \/ InMonitor'
            \/ exc' \in {"CanError", "IndexError"}
            \/ /\ pc' = "mon_done" /\ ret' = <<>>
               /\ exc' = "none"
               /\ sent' = sent
               /\ now' = now \/ (Truthy(duration) /\ now' - start > duration)]_vars
    /\ [][pc = "mon_done" => sent' = sent]_vars

\* monitor without a duration has returned: only a cancellation does that
C12_Witness ==
    /\ pc = "mon_done"
    /\ duration = None
    /\ exc = "none"
    /\ Len(sent) = 2
    /\ now > last_login

\* C13: every login send of a session, the one of construction included,
\* sets the last-login timestamp to its send time: whenever monitor evaluates
\* whether a re-login is due, it compares the time against the send time of
\* the most recently sent login frame
C13_LastLoginIsLastSend ==
    pc = "m_top" =>
        /\ last_login \in LoginTimes
        /\ \A t \in LoginTimes : t <= last_login

\* C14: in every run the first frame on the transport is one login frame
\* (extended, ID login_id, data the 8-byte credential), sent during
\* construction; it precedes every control frame, every default-voltage frame
\* and every status receive, and nothing is sent or received on a session
\* that has not sent its login frame
C14_LoginFirst ==
    /\ sent # <<>> =>
        /\ sent[1].arbitration_id = 83904512 + unit_id * 4
        /\ sent[1].arbitration_id = login_id
        /\ sent[1].is_extended_id
        /\ sent[1].data = login /\ Len(login) = 8
        /\ sent[1].t = 0
        /\ \A i \in 2..Len(sent) :
            /\ sent[i].arbitration_id \in {control_id, DefaultId(unit_id),
                                           login_id}
            /\ sent[i].t >= 2
    /\ pc = "init_sleep" => Len(sent) = 1
    /\ sent = <<>> =>
        /\ pc \in {"start", "exit"}
        /\ msg = NoFrame /\ status = NoSample
        /\ call = NoCall
    /\ (pc = "rs_wait" \/ msg # NoFrame) => (sent # <<>> /\ now >= 2)

\* a control frame, a default-voltage frame and a status receive, in this
\* order, after the login frame
C14_Witness ==
    /\ Len(sent) = 3
    /\ sent[1].arbitration_id = login_id /\ sent[1].data = DefaultLogin
    /\ sent[2].arbitration_id = control_id
    /\ Len(sent[3].data) = 5
    /\ pc = "main_print" /\ IsStatusFrame(msg)

\* the frame carries status_id_primary = 0x05014000 + unit*4, or that plus 4
MatchesStatusId(m) ==
    m.arbitration_id \in {83968000 + unit_id * 4, 83968000 + unit_id * 4 + 4}

\* C15: read_status returns a sample only if it was decoded from a received
\* frame whose ID is status_id_primary (0x05014000 + unit*4) or that plus 4;
\* while the wait lasts, a pass that receives no frame with one of these IDs
\* leaves the wait going; once the timeout has elapsed the result is None
\* and not an error; and every call of read_status comes to an end
C15_StatusFilter ==
    /\ [][pc = "rs_wait" =>
            /\ pc' = "idle" =>
                /\ exc' = "none"
                /\ \/ /\ status' # NoSample
                      /\ now < rs_end
                      /\ MatchesStatusId(msg')
                      /\ status' = DecodeStatus(msg'.data)
                   \/ /\ status' = NoSample
                      /\ now >= rs_end
                      /\ msg' = msg
            /\ (/\ now < rs_end
                /\ ~MatchesStatusId(msg')
                /\ exc' \notin {"CanError", "KeyboardInterrupt"}) =>
                /\ pc' = "rs_wait" /\ exc' = exc
                /\ status' = status /\ rs_end' = rs_end
            /\ now >= rs_end =>
                /\ pc' # "rs_wait"
                /\ exc' \in {"none", "KeyboardInterrupt"}
                /\ exc' = "none" => (pc' = "idle" /\ status' = NoSample)]_vars
    /\ (pc = "rs_wait") ~> (pc # "rs_wait")

\* a frame with another ID was received and dropped, the wait went on to the
\* timeout and the call returned None
C15_Witness ==
    /\ pc = "idle" /\ calls = 1 /\ exc = "none"
    /\ msg.arbitration_id = status_id2 + 4
    /\ Len(msg.data) = 8
    /\ status = NoSample
    /\ now >= rs_end /\ rs_end > 0

\* C16: every control frame sent by set_voltage_and_current has exactly 8
\* data bytes which, read as four unsigned 16-bit little-endian fields, equal
\* the scaled setpoints stored after the call: trunc(target_current*10),
\* trunc(target_voltage*100) twice, trunc(ovp_voltage*100), for every ovp the
\* caller passes, without wrap-around modulo 2^16; setpoints not passed in
\* the call keep their stored values
C16_ControlPayload ==
    [][(/\ pc = "idle" /\ pc' # "rs_wait"
        /\ calls' = calls + 1
        /\ call'.op = "set_voltage_and_current"
        /\ Len(sent') = Len(sent) + 1) =>
        LET d == Last(sent').data
        IN  /\ Last(sent').arbitration_id = control_id
            /\ Len(d) = 8
            /\ \A i \in 1..8 : d[i] \in 0..255
            /\ d[1] + 256 * d[2] = Trunc(target_current', 100)
            /\ d[3] + 256 * d[4] = Trunc(target_voltage', 10)
            /\ d[5] + 256 * d[6] = Trunc(target_voltage', 10)
            /\ d[7] + 256 * d[8] = Trunc(ovp_voltage', 10)
            /\ call'.volts = None => target_voltage' = target_voltage
            /\ call'.amps = None => target_current' = target_current
            /\ call'.ovp = None => ovp_voltage' = ovp_voltage]_vars

====
